---- MODULE Spec2Model ----
(***************************************************************************)
(* PulseLink backend: the role-targeted real-time broadcast fan-out.       *)
(*                                                                         *)
(* The model follows src/websocket_manager.py (ConnectionManager), the     *)
(* WebSocket endpoint of src/main.py and the mutation endpoints of         *)
(* src/routes/{alerts,reactions,acknowledgments}.py that call it.          *)
(*                                                                         *)
(* Scheduling: one asyncio event loop.  Code between two awaits runs       *)
(* atomically; every `await websocket.accept()` and every                  *)
(* `await websocket.send_json(...)` is a point where other tasks run.      *)
(* One action of the model is one such atomic stretch of a handler.        *)
(*                                                                         *)
(* Strings that the code lowercases or compares are sequences of           *)
(* one-character strings, so that str.lower() is computed, not assumed.    *)
(***************************************************************************)
EXTENDS Integers, Sequences, FiniteSets, TLC

\* ------------------------------------------------------------------ bounds
\* Number of users in the user store (ids 1..NumUsers).
NumUsers == 4
\* Number of WebSocket connections opened during a run (channel ids).
MaxConns == 2
\* SpecConcurrent: request handlers in flight at a time, and connections
\* opened during a run.
MaxInFlight == 2
MaxConnsConcurrent == 2
\* ... and in the runs where a recipient stops reading.
MaxConnsSlow == 2
\* ... and in the runs with rejected handshakes and user administration,
\* where at most MaxChangedUsers rows of the users table are changed.
MaxConnsHandshake == 2
MaxConnsRoles == 2
\* ... and in the runs with the deleting endpoints, where bulk_delete_alerts
\* is posted up to MaxBulkAlerts alert ids.
MaxConnsCommit == 2
MaxConnsSenders == 2
\* Up to MaxSignups accounts are self-registered, and an account logs in up
\* to MaxLogins times.
MaxSignups == 1
MaxLogins == 2
MaxBulkAlerts == 2
\* Connections opened while alerts are deleted and restored in bulk.
MaxConnsAlerts == 1
\* Connections opened, and users acknowledging, while acknowledgments are
\* added and removed.
MaxConnsAcks == 2
\* Connections opened while accounts are deactivated and deleted.
MaxConnsAccounts == 2
MaxAckUsers == 2
MaxAckAlerts == 1
\* The alerts table holds NumAlerts rows at most.
NumAlerts == 2
MaxChangedUsers == 1

Users == 1..NumUsers
AlertIds == 1..NumAlerts

\* ----------------------------------------------------------------- strings
UpperChars ==
  <<"A","B","C","D","E","F","G","H","I","J","K","L","M",
    "N","O","P","Q","R","S","T","U","V","W","X","Y","Z">>
LowerChars ==
  <<"a","b","c","d","e","f","g","h","i","j","k","l","m",
    "n","o","p","q","r","s","t","u","v","w","x","y","z">>

\* str.lower() on one character: an upper-case letter maps to its
\* lower-case letter, every other character to itself.
Characters ==
  {UpperChars[i] : i \in 1..26} \cup {LowerChars[i] : i \in 1..26} \cup {"_"}
LowerOf ==
  [c \in Characters |->
     IF \E i \in 1..26 : UpperChars[i] = c
     THEN LowerChars[CHOOSE i \in 1..26 : UpperChars[i] = c]
     ELSE c]
char_lower(c) == LowerOf[c]

\* str.lower() on the characters of a string.
lower(cs) == [i \in 1..Len(cs) |-> char_lower(cs[i])]

\* The characters of the strings that occur as roles and targets.  The state
\* holds the strings; the targeting code works on their characters.
Chars(s) ==
  CASE s = "all" -> <<"a","l","l">>
    [] s = "All" -> <<"A","l","l">>
    [] s = "student" -> <<"s","t","u","d","e","n","t">>
    [] s = "students" -> <<"s","t","u","d","e","n","t","s">>
    [] s = "Students" -> <<"S","t","u","d","e","n","t","s">>
    [] s = "faculty" -> <<"f","a","c","u","l","t","y">>
    [] s = "Faculty" -> <<"F","a","c","u","l","t","y">>
    [] s = "college_admin" -> <<"c","o","l","l","e","g","e","_","a","d","m","i","n">>
    [] s = "super_admin" -> <<"s","u","p","e","r","_","a","d","m","i","n">>
    [] s = "global" -> <<"g","l","o","b","a","l">>

\* UserRole values (src/models.py).
SUPER_ADMIN == "super_admin"
COLLEGE_ADMIN == "college_admin"
FACULTY == "faculty"
STUDENT == "student"
UserRole == {SUPER_ADMIN, COLLEGE_ADMIN, FACULTY, STUDENT}

\* Membership of a value in a Python list.
InList(x, l) == \E i \in 1..Len(l) : l[i] = x

\* -------------------------------------------------------------- user store
\* The users table: user u exists, is active, and holds role UserStoreRole(u).
UserStoreRoles == <<STUDENT, FACULTY, COLLEGE_ADMIN, SUPER_ADMIN>>
UserStoreRole(u) == UserStoreRoles[((u - 1) % 4) + 1]

\* --------------------------------------------------------- the Python dict
\* active_connections is a dict: CPython keeps its items in an insertion-
\* ordered entries array; `del` leaves a dummy slot behind, assigning to an
\* existing key overwrites the value in place, a new key is appended.  The
\* array is compacted only on a resize, which a dict created by {} needs
\* once more than 5 slots are used: runs here insert at most MaxConns keys.
NoEntry == [user_id |-> 0, ws |-> 0, role |-> ""]

dict_keys(d) == {d[i].user_id : i \in 1..Len(d)} \ {0}

\* len(d)
dict_len(d) == Cardinality({i \in 1..Len(d) : d[i].user_id # 0})

\* d[k] (k is a key of d)
dict_getitem(d, k) == d[CHOOSE i \in 1..Len(d) : d[i].user_id = k]

\* A registry that appends every registration, as a list of connections
\* would: the variant the one-entry-per-recipient properties tell apart.
dict_setitem_append(d, k, v) == Append(d, v)

\* d[k] = v
dict_setitem(d, k, v) ==
  IF k \in dict_keys(d)
  THEN [i \in 1..Len(d) |-> IF d[i].user_id = k THEN v ELSE d[i]]
  ELSE Append(d, v)

\* del d[k] (k is a key of d)
dict_delitem(d, k) ==
  [i \in 1..Len(d) |-> IF d[i].user_id = k THEN NoEntry ELSE d[i]]

\* The live items of d, in iteration order.
dict_items(d) == SelectSeq(d, LAMBDA e : e.user_id # 0)

\* iter(d.items()): remembers the size, the position and the items left.
dict_iter(d) == [di_used |-> dict_len(d), di_pos |-> 1, len |-> dict_len(d)]

RECURSIVE SkipDummies(_, _)
SkipDummies(d, i) ==
  IF i <= Len(d) /\ d[i].user_id = 0 THEN SkipDummies(d, i + 1) ELSE i

\* next(it): an item, StopIteration, or RuntimeError ("dictionary changed
\* size during iteration" / "dictionary keys changed during iteration").
dict_next(d, it) ==
  LET i == SkipDummies(d, it.di_pos) IN
  IF it.di_used # dict_len(d)
  THEN [status |-> "RuntimeError", it |-> it, item |-> NoEntry]
  ELSE IF i > Len(d)
  THEN [status |-> "StopIteration", it |-> it, item |-> NoEntry]
  ELSE IF it.len = 0
  THEN [status |-> "RuntimeError", it |-> it, item |-> NoEntry]
  ELSE [status |-> "item",
        it |-> [it EXCEPT !.di_pos = i + 1, !.len = @ - 1],
        item |-> d[i]]

\* --------------------------------------------------------------- variables
VARIABLES
  active_connections,  \* ws_manager.active_connections
  conns,               \* the websocket_endpoint tasks, one per channel id
  calls,               \* the mutation request handlers, in commit order
  users,               \* the users table, by id
  alerts,              \* the alerts table, by id, as committed
  alert_acknowledgments \* the alert_acknowledgments table: rows per
                       \* <<alert_id, user_id>>, as committed

vars ==
  <<active_connections, conns, calls, users, alerts, alert_acknowledgments>>

\* ------------------------------------------------------- the alerts table
\* A row of the alerts table, as far as the deleting endpoints read and
\* write it; no row under an id that is not found.
AlertRow(is_active) == [exists |-> TRUE, is_active |-> is_active]
NoAlert == [exists |-> FALSE, is_active |-> FALSE]

\* db.query(Alert).filter(Alert.id == alert_id).first()
alert_lookup(table, alert_id) ==
  IF alert_id \in DOMAIN table THEN table[alert_id] ELSE NoAlert

\* The table with NumAlerts active alerts.
InitialAlerts == [a \in AlertIds |-> AlertRow(TRUE)]

\* The alert_acknowledgments table without rows.
NoAcknowledgments == [p \in AlertIds \X Users |-> 0]

\* ------------------------------------------------- connection lifecycle
\* What decode_access_token makes of the presented token.
NoToken == [kind |-> "none", user_id |-> 0, role |-> ""]
BadToken == [kind |-> "invalid", user_id |-> 0, role |-> ""]
Token(u) == [kind |-> "jwt", user_id |-> u, role |-> UserStoreRole(u)]
TokenInputs == {NoToken, BadToken} \cup {Token(u) : u \in 0..NumUsers}
PathUserIds == 0..NumUsers

\* A row of the users table; a deleted user's row is gone.
UserRow(role, is_active) ==
  [exists |-> TRUE, role |-> role, is_active |-> is_active,
   is_approved |-> TRUE, logins |-> 0]
NoUser ==
  [exists |-> FALSE, role |-> "", is_active |-> FALSE,
   is_approved |-> FALSE, logins |-> 0]

\* db.query(User).filter(User.id == user_id).first()
user_lookup(store, user_id) ==
  IF user_id \in DOMAIN store THEN store[user_id] ELSE NoUser

\* The validation without the re-fetch of the account's active status.
handshake_close_reason_no_active_check(store, user_id, token) ==
  IF token.kind = "none" THEN "No token provided"
  ELSE IF token.kind = "invalid" THEN "Invalid token"
  ELSE IF token.user_id # user_id THEN "Token user_id mismatch"
  ELSE IF ~user_lookup(store, user_id).exists THEN "User not found"
  ELSE ""

\* The validation without the cross-check of the token against the path.
handshake_close_reason_no_mismatch_check(store, user_id, token) ==
  IF token.kind = "none" THEN "No token provided"
  ELSE IF token.kind = "invalid" THEN "Invalid token"
  ELSE IF ~user_lookup(store, user_id).exists THEN "User not found"
  ELSE IF user_lookup(store, user_id).is_active = FALSE
    THEN "Account deactivated"
  ELSE ""

\* The validation answering a mismatch the way it answers a bad token.
handshake_close_reason_mismatch_as_invalid(store, user_id, token) ==
  IF token.kind = "none" THEN "No token provided"
  ELSE IF token.kind = "invalid" THEN "Invalid token"
  ELSE IF token.user_id # user_id THEN "Invalid token"
  ELSE IF ~user_lookup(store, user_id).exists THEN "User not found"
  ELSE IF user_lookup(store, user_id).is_active = FALSE
    THEN "Account deactivated"
  ELSE ""

\* websocket_endpoint up to ws_manager.connect: the close reason of a
\* rejected handshake, "" when the handshake goes on to connect().
handshake_close_reason(store, user_id, token) ==
  IF token.kind = "none" THEN "No token provided"
  ELSE IF token.kind = "invalid" THEN "Invalid token"
  ELSE IF token.user_id # user_id THEN "Token user_id mismatch"
  ELSE IF ~user_lookup(store, user_id).exists THEN "User not found"
  ELSE IF user_lookup(store, user_id).is_active = FALSE
  THEN "Account deactivated"
  ELSE ""

\* A rejected handshake: websocket.close(code=1008, reason=...) and return.
\* The record keeps what the client presented.
Rejected(user_id, token, reason) ==
  [user_id |-> user_id, role |-> "", pc |-> "rejected", token |-> token,
   reason |-> reason]

\* The registry entry connect() stores.
connection_info_without_role(user_id, ws, role) ==
  [user_id |-> user_id, ws |-> ws, role |-> ""]

\* The value connect() assigns in one statement: channel and role together.
connection_info(user_id, ws, role) ==
  [user_id |-> user_id, ws |-> ws, role |-> role]

\* ConnectionManager.connect after `await websocket.accept()` has returned.
connect(d, ws, user_id, user_role) ==
  dict_setitem(d, user_id, connection_info(user_id, ws, user_role))

\* disconnect() without its membership test: `del` on a missing key raises.
disconnect_unchecked(d, user_id) ==
  IF user_id \in dict_keys(d)
  THEN [raised |-> FALSE, d |-> dict_delitem(d, user_id)]
  ELSE [raised |-> TRUE, d |-> d]

\* ConnectionManager.disconnect: the registry afterwards, and whether the
\* call raised (KeyError from `del` on a missing key).
disconnect(d, user_id) ==
  IF user_id \in dict_keys(d)
  THEN [raised |-> FALSE, d |-> dict_delitem(d, user_id)]
  ELSE [raised |-> FALSE, d |-> d]

\* ConnectionManager.get_active_users_count
get_active_users_count(d) == dict_len(d)

\* A handler that has ended keeps nothing but how it ended.
Ended(pc) ==
  [user_id |-> 0, role |-> "", pc |-> pc, token |-> NoToken, reason |-> ""]

\* A handshake that trusts the role claim of the token.
handshake_role_from_token(store, user_id, token) == token.role

\* user_role = user.role.value: the role of the row just fetched.
handshake_role(store, user_id, token) == user_lookup(store, user_id).role

\* A client opens /ws/{user_id}?token=...: the handshake passes validation
\* and the handler suspends at `await websocket.accept()` inside connect().
\* A rejected handshake closes the socket and changes nothing.
WsOpen(user_id, token) ==
  /\ handshake_close_reason(users, user_id, token) = ""
  /\ conns' = Append(conns, [user_id |-> user_id,
                             role |-> handshake_role(users, user_id, token),
                             pc |-> "accepting",
                             token |-> token,
                             reason |-> ""])
  /\ UNCHANGED <<active_connections, calls, users, alerts,
               alert_acknowledgments>>

\* A client opens /ws/{user_id}?token=... and a validation step fails: the
\* handler closes the socket with the step's reason and returns.
WsReject(user_id, token) ==
  /\ handshake_close_reason(users, user_id, token) # ""
  /\ conns' = Append(conns,
                     Rejected(user_id, token,
                              handshake_close_reason(users, user_id, token)))
  /\ UNCHANGED <<active_connections, calls, users, alerts,
               alert_acknowledgments>>

\* accept() returns: connect() stores the entry, the handler enters its
\* receive loop.
WsAccepted(c) ==
  /\ conns[c].pc = "accepting"
  /\ active_connections' =
       connect(active_connections, c, conns[c].user_id, conns[c].role)
  /\ conns' = [conns EXCEPT ![c].pc = "active"]
  /\ UNCHANGED <<calls, users, alerts, alert_acknowledgments>>

\* The transport of an active connection goes down (the client closes or
\* vanishes).  The handler, suspended in receive_text(), has not run yet;
\* from now on a send on this channel raises.
WsLost(c) ==
  /\ conns[c].pc = "active"
  /\ conns' = [conns EXCEPT ![c].pc = "lost"]
  /\ UNCHANGED <<active_connections, calls, users, alerts,
               alert_acknowledgments>>

\* `await websocket.accept()` raises (the client is gone before the upgrade
\* completes): the exception leaves connect() before its assignment and
\* ends the handler.
WsAcceptFails(c) ==
  /\ conns[c].pc = "accepting"
  /\ conns' = [conns EXCEPT ![c] = Ended("accept_failed")]
  /\ UNCHANGED <<active_connections, calls, users, alerts,
               alert_acknowledgments>>

\* The receive loop ends with an exception other than WebSocketDisconnect:
\* receive_text() on a binary frame (KeyError), or the pong send_json on a
\* transport that is down.  `except WebSocketDisconnect` does not catch it:
\* the handler ends without calling disconnect().
WsAbort(c) ==
  /\ conns[c].pc \in {"active", "lost"}
  /\ conns' = [conns EXCEPT ![c] = Ended("aborted")]
  /\ UNCHANGED <<active_connections, calls, users, alerts,
               alert_acknowledgments>>

\* The peer of an active connection stops reading while its transport stays
\* up: from now on a send on this channel neither returns nor raises.
WsStall(c) ==
  /\ conns[c].pc = "active"
  /\ conns' = [conns EXCEPT ![c].pc = "stalled"]
  /\ UNCHANGED <<active_connections, calls, users, alerts,
               alert_acknowledgments>>

\* receive_text() raises WebSocketDisconnect: the handler calls disconnect().
WsDisconnect(c) ==
  /\ conns[c].pc = "lost"
  /\ LET r == disconnect(active_connections, conns[c].user_id) IN
       /\ active_connections' = r.d
       /\ conns' = [conns EXCEPT
                      ![c] = Ended(IF r.raised THEN "failed" ELSE "closed")]
  /\ UNCHANGED <<calls, users, alerts, alert_acknowledgments>>

\* ------------------------------------------------------ user administration
\* The users table as seeded.
SignupIds == (NumUsers + 1)..(NumUsers + MaxSignups)
InitialUsers ==
  [u \in Users \cup SignupIds |->
     IF u \in Users THEN UserRow(UserStoreRole(u), TRUE) ELSE NoUser]

\* The rows that differ from the seeded table.
ChangedUsers(store) ==
  {u \in Users : [store[u] EXCEPT !.logins = 0] # InitialUsers[u]}

\* require_role(UserRole.SUPER_ADMIN): some user holding that role calls.
IsSuperAdmin(store, actor) ==
  user_lookup(store, actor).exists /\ user_lookup(store, actor).role = SUPER_ADMIN

\* update_user: the fields given (Some) are assigned, the others kept.
update_user(store, user_id, role, is_active) ==
  [store EXCEPT
     ![user_id] = [@ EXCEPT
                     !.role = IF role = <<>> THEN @ ELSE role[1],
                     !.is_active = IF is_active = <<>> THEN @
                                   ELSE is_active[1]]]

\* delete_user: hard delete when permanent, else deactivation.
delete_user(store, user_id, permanent) ==
  [store EXCEPT
     ![user_id] = IF permanent THEN NoUser
                  ELSE [@ EXCEPT !.is_active = FALSE]]

\* validate_role: is the string a UserRole value?  (Else HTTP 400.)
validate_role(role) == role \in UserRole

\* The role strings clients put to update_user.
RoleInputs == {STUDENT, FACULTY, "admin"}

\* An update_user that also rewrites the role of the user's registry entry.
UpdateUser_refreshing_registry(user_id, role, is_active) ==
  /\ \E actor \in Users : IsSuperAdmin(users, actor)
  /\ user_lookup(users, user_id).exists
  /\ IF role = <<>> THEN TRUE ELSE validate_role(role[1])
  /\ users' = update_user(users, user_id, role, is_active)
  /\ Cardinality(ChangedUsers(users')) <= MaxChangedUsers
  /\ active_connections' =
       [i \in 1..Len(active_connections) |->
          IF active_connections[i].user_id = user_id /\ role # <<>>
          THEN [active_connections[i] EXCEPT !.role = role[1]]
          ELSE active_connections[i]]
  /\ UNCHANGED <<conns, calls, alerts, alert_acknowledgments>>

\* PUT /api/admin/users/{user_id} by a super_admin.  Nothing but the table
\* is touched.
UpdateUser(user_id, role, is_active) ==
  /\ \E actor \in Users : IsSuperAdmin(users, actor)
  /\ user_lookup(users, user_id).exists
  /\ IF role = <<>> THEN TRUE ELSE validate_role(role[1])
  /\ users' = update_user(users, user_id, role, is_active)
  /\ Cardinality(ChangedUsers(users')) <= MaxChangedUsers
  /\ UNCHANGED <<active_connections, conns, calls, alerts,
               alert_acknowledgments>>

\* DELETE /api/admin/users/{user_id} by another user who is super_admin.
\* A delete_user that also took the user's connection out of the registry.
DeleteUser_dropping_entry(user_id, permanent) ==
  /\ \E actor \in Users : IsSuperAdmin(users, actor) /\ actor # user_id
  /\ user_lookup(users, user_id).exists
  /\ users' = delete_user(users, user_id, permanent)
  /\ Cardinality(ChangedUsers(users')) <= MaxChangedUsers
  /\ active_connections' = disconnect(active_connections, user_id)
  /\ UNCHANGED <<conns, calls, alerts, alert_acknowledgments>>

DeleteUser(user_id, permanent) ==
  /\ \E actor \in Users : IsSuperAdmin(users, actor) /\ actor # user_id
  /\ user_lookup(users, user_id).exists
  /\ users' = delete_user(users, user_id, permanent)
  /\ Cardinality(ChangedUsers(users')) <= MaxChangedUsers
  /\ UNCHANGED <<active_connections, conns, calls, alerts,
               alert_acknowledgments>>

\* ------------------------------------------------------- signup and login
\* The row signup stores: active, not approved, never logged in.
PendingRow(role) ==
  [UserRow(role, TRUE) EXCEPT !.is_approved = FALSE]

\* signup: the role of the new row, or "HTTP400" for a role other than
\* faculty and student in any letter case.
signup_role(role) ==
  IF lower(Chars(role)) = Chars(FACULTY) THEN FACULTY
  ELSE IF lower(Chars(role)) = Chars(STUDENT) THEN STUDENT
  ELSE "HTTP400"

\* A login that leaves out the approval check.
login_status_no_approval_check(row, password_ok) ==
  IF ~row.exists THEN "401"
  ELSE IF row.is_active = FALSE THEN "401"
  ELSE IF ~password_ok THEN "401"
  ELSE "200"

\* login: the status it answers with; "200" carries the access token.
login_status(row, password_ok) ==
  IF ~row.exists THEN "401"
  ELSE IF row.is_active = FALSE THEN "401"
  ELSE IF row.is_approved = FALSE THEN "403"
  ELSE IF ~password_ok THEN "401"
  ELSE "200"

\* POST /api/auth/signup: a new row, under an id no row holds.
Signup(user_id, role) ==
  /\ user_id \in SignupIds
  /\ ~user_lookup(users, user_id).exists
  /\ signup_role(role) # "HTTP400"
  /\ users' = [users EXCEPT ![user_id] = PendingRow(signup_role(role))]
  /\ UNCHANGED <<active_connections, conns, calls, alerts,
               alert_acknowledgments>>

\* POST /api/auth/login with the user's name: a successful login stamps
\* last_login_at (counted in logins) and returns a token; a failed one
\* changes nothing.
Login(user_id, password_ok) ==
  /\ login_status(user_lookup(users, user_id), password_ok) = "200"
  /\ users[user_id].logins < MaxLogins
  /\ users' = [users EXCEPT ![user_id].logins = @ + 1]
  /\ UNCHANGED <<active_connections, conns, calls, alerts,
               alert_acknowledgments>>

\* POST /api/admin/pending-users/{user_id}/approve by a super_admin.
ApproveUser(user_id) ==
  /\ \E actor \in DOMAIN users : IsSuperAdmin(users, actor)
  /\ user_lookup(users, user_id).exists
  /\ ~users[user_id].is_approved
  /\ users' = [users EXCEPT ![user_id].is_approved = TRUE,
                            ![user_id].is_active = TRUE]
  /\ UNCHANGED <<active_connections, conns, calls, alerts,
               alert_acknowledgments>>

\* POST /api/admin/pending-users/{user_id}/reject by a super_admin: the
\* pending row is deleted (permanent) or deactivated.
RejectUser(user_id, permanent) ==
  /\ \E actor \in DOMAIN users : IsSuperAdmin(users, actor)
  /\ user_lookup(users, user_id).exists
  /\ ~users[user_id].is_approved
  /\ users' = delete_user(users, user_id, permanent)
  /\ UNCHANGED <<active_connections, conns, calls, alerts,
               alert_acknowledgments>>

\* DELETE /api/admin/pending-users/{user_id} by a super_admin.
DeletePendingUser(user_id) ==
  /\ \E actor \in DOMAIN users : IsSuperAdmin(users, actor)
  /\ user_lookup(users, user_id).exists
  /\ ~users[user_id].is_approved
  /\ users' = delete_user(users, user_id, TRUE)
  /\ UNCHANGED <<active_connections, conns, calls, alerts,
               alert_acknowledgments>>

\* ---------------------------------------------------------- role targeting
\* normalize_target_roles (routes/alerts.py): the normalized strings, as
\* characters.
normalize_target_roles(target_roles) ==
  [i \in 1..Len(target_roles) |->
     IF lower(Chars(target_roles[i])) = Chars("students")
     THEN Chars("student")
     ELSE lower(Chars(target_roles[i]))]

\* validate_target_roles: "True", "False", or "HTTP403" when it raises.
validate_target_roles(sender_role, target_roles) ==
  LET normalized == normalize_target_roles(target_roles)
      target_set == {normalized[i] : i \in 1..Len(normalized)}
  IN
  IF Chars("all") \in target_set
  THEN IF sender_role = SUPER_ADMIN \/ sender_role = COLLEGE_ADMIN
       THEN "True" ELSE "HTTP403"
  ELSE IF sender_role = SUPER_ADMIN
  THEN IF target_set \subseteq
            {Chars("student"), Chars("faculty"), Chars("college_admin")}
       THEN "True" ELSE "HTTP403"
  ELSE IF sender_role = COLLEGE_ADMIN
  THEN IF target_set \subseteq {Chars("student"), Chars("faculty")}
       THEN "True" ELSE "HTTP403"
  ELSE IF sender_role = FACULTY
  THEN IF target_set = {Chars("student")} THEN "True" ELSE "HTTP403"
  ELSE "False"

\* An optional argument: None, or Some(value).
None == <<>>
Some(x) == <<x>>

\* The default applied to None only (`if target_roles is None`): an empty
\* list stays empty.
default_target_roles_none_only(target_roles) ==
  IF target_roles = None THEN <<"all">> ELSE target_roles[1]

\* broadcast_alert: `if not target_roles: target_roles = ["all"]`
default_target_roles(target_roles) ==
  IF target_roles = None \/ target_roles[1] = <<>>
  THEN <<"all">>
  ELSE target_roles[1]

\* The normalized_roles loop without its plural branch.
normalized_roles_lower_only(target_roles) ==
  LET roles == default_target_roles(target_roles) IN
  [i \in 1..Len(roles) |-> lower(Chars(roles[i]))]

\* broadcast_alert: the normalized_roles loop; the strings as characters.
normalized_roles(target_roles) ==
  LET roles == default_target_roles(target_roles) IN
  [i \in 1..Len(roles) |->
     IF lower(Chars(roles[i])) = Chars("students")
     THEN Chars("student")
     ELSE lower(Chars(roles[i]))]

\* should_receive without broadcast_to_all: the role must be listed.
should_receive_role_only(target_roles, user_role) ==
  InList(Chars(user_role), normalized_roles(target_roles))

\* broadcast_alert: should_receive for one registry entry
should_receive(target_roles, user_role) ==
  LET broadcast_to_all == InList(Chars("all"), normalized_roles(target_roles))
  IN broadcast_to_all \/ InList(Chars(user_role), normalized_roles(target_roles))

\* ------------------------------------------------------ mutation endpoints
\* The endpoints that broadcast, the ConnectionManager method each awaits
\* after its commit, and the roles require_role lets in (get_current_user
\* lets every role in).
Endpoints ==
  {"create_alert", "delete_alert", "add_reaction", "remove_reaction",
   "acknowledge_alert"}

broadcast_method(endpoint) ==
  CASE endpoint = "create_alert" -> "broadcast_alert"
    [] endpoint = "delete_alert" -> "broadcast_alert_deletion"
    [] endpoint = "permanent_delete_alert" -> "broadcast_alert_deletion"
    [] endpoint = "bulk_delete_alerts" -> "broadcast_alert_deletion"
    [] endpoint \in {"add_reaction", "remove_reaction"} -> "broadcast_reaction"
    [] endpoint = "acknowledge_alert" -> "broadcast_acknowledgment"

event_type(method) ==
  CASE method = "broadcast_alert" -> "new_alert"
    [] method = "broadcast_alert_deletion" -> "alert_deleted"
    [] method = "broadcast_reaction" -> "reaction_update"
    [] method = "broadcast_acknowledgment" -> "acknowledgment_update"

allowed_roles(endpoint) ==
  CASE endpoint = "create_alert" -> {SUPER_ADMIN, COLLEGE_ADMIN, FACULTY}
    [] endpoint = "delete_alert" -> {SUPER_ADMIN, COLLEGE_ADMIN}
    [] endpoint = "permanent_delete_alert" -> {SUPER_ADMIN}
    [] endpoint = "bulk_delete_alerts" -> {SUPER_ADMIN, COLLEGE_ADMIN}
    [] OTHER -> UserRole

\* The checks without validate_target_roles.
request_accepted_role_only(endpoint, sender_role, target_roles) ==
  sender_role \in allowed_roles(endpoint)

\* The request passes the endpoint's checks up to its commit.
request_accepted(endpoint, sender_role, target_roles) ==
  /\ sender_role \in allowed_roles(endpoint)
  /\ endpoint = "create_alert" =>
       validate_target_roles(sender_role, target_roles) # "HTTP403"

\* The target_roles lists clients post to create_alert.
TargetInputs ==
  { <<>>, <<"All">>, <<"faculty">>, <<"Students">>, <<"student", "faculty">> }

\* ------------------------------------------------------------ the fan-out
\* A loop body without the `if should_receive` test.
sends_to_everyone(method, target_roles, user_role) == TRUE

\* Does the loop body of the method send to this entry?  broadcast_alert
\* filters by should_receive; the other three send to every entry.
sends_to(method, target_roles, user_role) ==
  IF method = "broadcast_alert"
  THEN should_receive(target_roles, user_role)
  ELSE TRUE

\* The for loop of a broadcast_* method from the current iterator position
\* up to its next `await websocket.send_json`, to the end of the loop, or to
\* the RuntimeError the dict iterator raises.
RECURSIVE run_loop(_, _)
run_loop(d, t) ==
  LET n == dict_next(d, t.it) IN
  IF n.status = "RuntimeError" THEN [t EXCEPT !.pc = "raised"]
  ELSE IF n.status = "StopIteration" THEN [t EXCEPT !.pc = "purge"]
  ELSE IF sends_to(broadcast_method(t.endpoint), t.target_roles, n.item.role)
  THEN [t EXCEPT !.pc = "sending", !.it = n.it, !.cur = n.item,
                 !.sent = Append(@, n.item.ws)]
  ELSE run_loop(d, [t EXCEPT !.it = n.it])

\* An `except Exception` that steps the iterator back to try the entry again.
on_send_error_retry(t) ==
  [t EXCEPT !.disconnected_users = Append(@, t.cur.user_id),
            !.it = [@ EXCEPT !.di_pos = @ - 1, !.len = @ + 1]]

\* `except Exception`: the entry's user_id joins disconnected_users.
on_send_error(t) ==
  [t EXCEPT !.disconnected_users = Append(@, t.cur.user_id)]

\* The loop after the pass: `for user_id in disconnected_users: ... del`.
RECURSIVE purge(_, _)
purge(d, disconnected_users) ==
  IF disconnected_users = <<>> THEN d
  ELSE purge(IF Head(disconnected_users) \in dict_keys(d)
             THEN dict_delitem(d, Head(disconnected_users))
             ELSE d,
             Tail(disconnected_users))

\* The handler's state when a broadcast_* call begins; target_roles is the
\* argument the method gets: Some(list) from create_alert, else None.
new_call(endpoint, target_roles, d) ==
  [endpoint |-> endpoint,
   target_roles |-> target_roles,
   it |-> dict_iter(d),
   disconnected_users |-> <<>>,
   pc |-> "running",
   cur |-> NoEntry,
   sent |-> <<>>,
   committed |-> TRUE,
   alert_ids |-> <<>>,
   todo |-> <<>>,
   deleted_ids |-> <<>>,
   sender_role |-> "",
   alert_id |-> 0,
   user_id |-> 0,
   count |-> 0]

\* bulk_delete_alerts at the top of its loop over request.alert_ids:
\* nothing deleted yet, db.commit() comes after the loop.
new_bulk_call(d, alert_ids) ==
  [new_call("bulk_delete_alerts", None, d)
     EXCEPT !.committed = FALSE, !.alert_ids = alert_ids, !.todo = alert_ids]

\* A loop that set every listed alert it finds inactive, active or not.
session_deletable_any_existing(table, t, alert_id) ==
  /\ alert_lookup(table, alert_id).exists
  /\ ~InList(alert_id, t.deleted_ids)

\* `if alert and alert.is_active`, as the handler's session sees the row:
\* the committed row, inactive once the handler has set it so.
session_deletable(table, t, alert_id) ==
  /\ alert_lookup(table, alert_id).exists
  /\ alert_lookup(table, alert_id).is_active
  /\ ~InList(alert_id, t.deleted_ids)

\* The loop over alert_ids goes past the ids it does not delete.
RECURSIVE skip_ids(_, _)
skip_ids(table, t) ==
  IF t.todo = <<>> \/ session_deletable(table, t, Head(t.todo))
  THEN t
  ELSE skip_ids(table, [t EXCEPT !.todo = Tail(@)])

\* The loop body for the id at the head of todo: the alert is set inactive,
\* its id appended to deleted_ids, and broadcast_alert_deletion called.
next_broadcast(t, d) ==
  [t EXCEPT !.deleted_ids = Append(@, Head(t.todo)),
            !.todo = Tail(@),
            !.it = dict_iter(d),
            !.disconnected_users = <<>>,
            !.cur = NoEntry,
            !.sent = <<>>]

\* db.commit() of bulk_delete_alerts: the rows set inactive are written.
bulk_commit(table, deleted_ids) ==
  [a \in DOMAIN table |->
     IF InList(a, deleted_ids)
     THEN [table[a] EXCEPT !.is_active = FALSE]
     ELSE table[a]]

\* bulk_restore_alerts: every listed alert that exists and is inactive is
\* set active.
bulk_restore(table, alert_ids) ==
  [a \in DOMAIN table |->
     IF InList(a, alert_ids) /\ table[a].exists /\ ~table[a].is_active
     THEN [table[a] EXCEPT !.is_active = TRUE]
     ELSE table[a]]

\* A handler that has ended: what it was called with and how it ended,
\* "returned" (its success response) or "raised" (the exception left the
\* endpoint).  The locals of the broadcast_* call are gone.
Finished(t, pc) ==
  [endpoint |-> t.endpoint,
   target_roles |-> t.target_roles,
   it |-> [di_used |-> 0, di_pos |-> 0, len |-> 0],
   disconnected_users |-> <<>>,
   pc |-> pc,
   cur |-> NoEntry,
   sent |-> <<>>,
   committed |-> t.committed \/ pc = "returned",
   alert_ids |-> t.alert_ids,
   todo |-> <<>>,
   deleted_ids |-> IF pc = "returned" THEN t.deleted_ids ELSE <<>>,
   sender_role |-> t.sender_role,
   alert_id |-> t.alert_id,
   user_id |-> t.user_id,
   count |-> t.count]

\* The HTTP status the request handler answers with.
response(t) ==
  CASE t.pc = "returned" -> "200"
    [] t.pc = "raised" -> "500"
    [] t.pc = "forbidden" -> "403"
    [] t.pc = "already_acknowledged" -> "200"
    [] OTHER -> ""

\* The handlers that have not ended yet.
InFlight(cs) == SelectSeq(cs, LAMBDA t : t.pc = "sending")

\* The handler from state t until its next await that suspends, its return
\* or its failure: the pass of the current broadcast_* call, its purge, and,
\* in bulk_delete_alerts, the calls for the alert ids that follow and the
\* db.commit() after the last.  The registry afterwards and the handler.
RECURSIVE run_handler(_, _)
run_handler(d, t) ==
  LET t1 == run_loop(d, t)
      d1 == purge(d, t1.disconnected_users)
  IN IF t1.pc = "raised" THEN [d |-> d, t |-> Finished(t1, "raised")]
     ELSE IF t1.pc # "purge" THEN [d |-> d, t |-> t1]
     ELSE IF skip_ids(alerts, t1).todo # <<>>
     THEN run_handler(d1, next_broadcast(skip_ids(alerts, t1), d1))
     ELSE [d |-> d1, t |-> Finished(t1, "returned")]

\* The handler at index k of cs runs on from state t until it suspends at a
\* send, returns its response, or fails with the iterator's RuntimeError.
Advance(cs, k, t) ==
  LET r == run_handler(active_connections, t) IN
  /\ active_connections' = r.d
  /\ calls' = [j \in 1..Len(cs) |-> IF j # k THEN cs[j] ELSE r.t]
  /\ alerts' = IF r.t.pc = "returned"
               THEN bulk_commit(alerts, r.t.deleted_ids)
               ELSE alerts

\* A mutation request passes its checks and commits; the handler then calls
\* its broadcast_* method, which runs up to its first awaited send.  calls
\* lists the handlers in commit order; the record of a handler that ended
\* earlier is dropped when a new request arrives.
Request(endpoint, target_roles) ==
  /\ endpoint = "create_alert" \/ target_roles = <<>>
  /\ \E sender \in Users :
       /\ user_lookup(users, sender).exists
       /\ request_accepted(endpoint, user_lookup(users, sender).role,
                           target_roles)
  /\ LET t == new_call(endpoint,
                       IF endpoint = "create_alert"
                       THEN Some(target_roles) ELSE None,
                       active_connections)
         cs == Append(InFlight(calls), t)
     IN Advance(cs, Len(cs), t)
  /\ UNCHANGED <<conns, users, alert_acknowledgments>>

\* POST /api/alerts by user sender, whose role the handler's record keeps.
\* require_role and validate_target_roles come first: when either raises
\* the request is answered 403 and the handler ends there; else the alert is
\* committed and broadcast_alert runs up to its first awaited send.
\* json.dumps of a list of strings, as the text of the target_roles column:
\* the brackets, and the items between them; json.loads reads it back.
json_dumps(list) == <<"[">> \o list \o <<"]">>
json_loads(text) == SubSeq(text, 2, Len(text) - 1)

\* The visibility rule of get_alerts for one alert, from the alert's
\* target_roles column, the reader's role and whether the reader sent it.
should_see(column, user_role, is_sender) ==
  LET stored == IF column # <<>> THEN json_loads(column) ELSE <<"all">>
      target_roles == [i \in 1..Len(stored) |-> lower(Chars(stored[i]))]
  IN IF InList(Chars("all"), target_roles)
        \/ InList(Chars("global"), target_roles)
     THEN TRUE
     ELSE IF user_role \in {SUPER_ADMIN, COLLEGE_ADMIN}
     THEN InList(Chars(user_role), target_roles) \/ is_sender
     ELSE IF user_role = STUDENT
     THEN InList(Chars("student"), target_roles)
     ELSE IF user_role = FACULTY
     THEN InList(Chars("faculty"), target_roles)
     ELSE FALSE

CreateAlertBy(sender, target_roles) ==
  /\ user_lookup(users, sender).exists
  /\ LET sender_role == user_lookup(users, sender).role
         t == [new_call("create_alert", Some(target_roles),
                        active_connections)
                 EXCEPT !.sender_role = sender_role]
         cs == Append(InFlight(calls), t)
     IN IF request_accepted("create_alert", sender_role, target_roles)
        THEN Advance(cs, Len(cs), t)
        ELSE /\ calls' = Append(InFlight(calls),
                                Finished([t EXCEPT !.committed = FALSE],
                                         "forbidden"))
             /\ active_connections' = active_connections
             /\ alerts' = alerts
  /\ UNCHANGED <<conns, users, alert_acknowledgments>>

\* POST /api/alerts/bulk-delete with alert_ids: the handler runs up to the
\* first awaited send of its first broadcast, or, with no alert to delete,
\* commits and returns.
BulkDelete(alert_ids) ==
  /\ \E sender \in Users :
       /\ user_lookup(users, sender).exists
       /\ user_lookup(users, sender).role \in allowed_roles("bulk_delete_alerts")
  /\ LET t == skip_ids(alerts, new_bulk_call(active_connections, alert_ids))
         cs == Append(InFlight(calls), t)
     IN IF t.todo = <<>>
        THEN /\ calls' = Append(InFlight(calls), Finished(t, "returned"))
             /\ active_connections' = active_connections
             /\ alerts' = alerts
        ELSE Advance(cs, Len(cs), next_broadcast(t, active_connections))
  /\ UNCHANGED <<conns, users, alert_acknowledgments>>

\* POST /api/alerts/bulk-restore with alert_ids: no await; the handler runs
\* to its commit and returns.
BulkRestore(alert_ids) ==
  /\ \E sender \in Users :
       /\ user_lookup(users, sender).exists
       /\ user_lookup(users, sender).role \in allowed_roles("bulk_delete_alerts")
  /\ alerts' = bulk_restore(alerts, alert_ids)
  /\ UNCHANGED <<active_connections, conns, calls, users,
                 alert_acknowledgments>>

\* db.query(AlertAcknowledgment).filter(alert_id == alert_id).count()
RECURSIVE count_rows(_, _, _)
count_rows(table, alert_id, n) ==
  IF n = 0 THEN 0
  ELSE table[<<alert_id, n>>] + count_rows(table, alert_id, n - 1)

ack_count(table, alert_id) == count_rows(table, alert_id, NumUsers)

\* The query for the user's row of the alert: is there one?
existing(table, alert_id, user_id) == table[<<alert_id, user_id>>] > 0

\* POST /api/acknowledgments/alert/{alert_id} by user_id: 404 without the
\* alert; with a row of the pair, already_acknowledged; else the row is
\* added and committed, the count taken, and broadcast_acknowledgment runs
\* up to its first awaited send.
AcknowledgeAlert(user_id, alert_id) ==
  /\ user_lookup(users, user_id).exists
  /\ alert_lookup(alerts, alert_id).exists
  /\ LET added == [alert_acknowledgments
                     EXCEPT ![<<alert_id, user_id>>] = @ + 1]
         t == [new_call("acknowledge_alert", None, active_connections)
                 EXCEPT !.alert_id = alert_id,
                        !.user_id = user_id,
                        !.count = ack_count(added, alert_id)]
         cs == Append(InFlight(calls), t)
     IN IF existing(alert_acknowledgments, alert_id, user_id)
        THEN /\ calls' = Append(InFlight(calls),
                                [Finished(t, "already_acknowledged")
                                   EXCEPT !.count = 0])
             /\ active_connections' = active_connections
             /\ alerts' = alerts
             /\ alert_acknowledgments' = alert_acknowledgments
        ELSE /\ alert_acknowledgments' = added
             /\ Advance(cs, Len(cs), t)
  /\ UNCHANGED <<conns, users>>

\* DELETE /api/acknowledgments/alert/{alert_id} by user_id: 404 without a
\* row of the pair; else the first row found is deleted and committed.
UnacknowledgeAlert(user_id, alert_id) ==
  /\ user_lookup(users, user_id).exists
  /\ alert_id \in AlertIds
  /\ existing(alert_acknowledgments, alert_id, user_id)
  /\ alert_acknowledgments' =
       [alert_acknowledgments EXCEPT ![<<alert_id, user_id>>] = @ - 1]
  /\ UNCHANGED <<active_connections, conns, calls, users, alerts>>

\* Does the send that call t awaits succeed?  Not once the transport of its
\* channel is down or its handler has ended.
send_ok(t) == conns[t.cur.ws].pc = "active"

\* The awaited send is still pending: the peer does not read.
send_pending(t) == conns[t.cur.ws].pc = "stalled"

\* An awaited send_json returns or raises; the handler runs on.
SendReturns(k) ==
  /\ calls[k].pc = "sending"
  /\ ~send_pending(calls[k])
  /\ Advance(calls, k,
             IF send_ok(calls[k]) THEN calls[k] ELSE on_send_error(calls[k]))
  /\ UNCHANGED <<conns, users, alert_acknowledgments>>

\* ------------------------------------------------------ the specifications
Init ==
  /\ active_connections = <<>>
  /\ conns = <<>>
  /\ calls = <<>>
  /\ users = InitialUsers
  /\ alerts = InitialAlerts
  /\ alert_acknowledgments = NoAcknowledgments

Lifecycle ==
  \/ \E c \in 1..Len(conns) : WsAccepted(c)
  \/ \E c \in 1..Len(conns) : WsLost(c)
  \/ \E c \in 1..Len(conns) : WsDisconnect(c)
  \/ \E c \in 1..Len(conns) : WsAcceptFails(c)
  \/ \E c \in 1..Len(conns) : WsAbort(c)

Open ==
  \E user_id \in PathUserIds, token \in TokenInputs : WsOpen(user_id, token)

Reject ==
  \E user_id \in PathUserIds, token \in TokenInputs :
    WsReject(user_id, token)

\* The administration of accounts: activation, deactivation, deletion.
AdminAccounts ==
  \/ \E user_id \in Users, is_active \in BOOLEAN :
       UpdateUser(user_id, <<>>, <<is_active>>)
  \/ \E user_id \in Users, permanent \in BOOLEAN :
       DeleteUser(user_id, permanent)

\* The administration of roles.
ChangeRole ==
  \E user_id \in Users, role \in RoleInputs :
    UpdateUser(user_id, <<role>>, <<>>)

\* Alerts for everyone, for faculty, for students.
RoleTargetInputs == { <<>>, <<"faculty">>, <<"Students">> }

CreateAlert ==
  \E target_roles \in RoleTargetInputs :
    Request("create_alert", target_roles)

\* The target_roles lists the senders post.
SenderTargetInputs ==
  { <<>>, <<"all">>, <<"student">>, <<"Students">>, <<"faculty">>,
    <<"college_admin">>, <<"super_admin">>, <<"student", "faculty">> }

CreateAlertBySender ==
  \E sender \in Users, target_roles \in SenderTargetInputs :
    CreateAlertBy(sender, target_roles)

\* The alert_ids lists posted to bulk-delete and bulk-restore: ids of rows
\* and one id without a row, repeated or not.
BulkInputs ==
  UNION {[1..n -> 1..(NumAlerts + 1)] : n \in 0..MaxBulkAlerts}

\* The deleting endpoints.
Delete ==
  \/ Request("delete_alert", <<>>)
  \/ Request("permanent_delete_alert", <<>>)
  \/ \E alert_ids \in BulkInputs : BulkDelete(alert_ids)

Mutate ==
  \E endpoint \in Endpoints, target_roles \in TargetInputs :
    Request(endpoint, target_roles)

Resume == \E k \in 1..Len(calls) : SendReturns(k)

\* Any number of mutation requests, one at a time, while up to MaxConns
\* connections open, register, break and close at every await.
Next ==
  \/ Len(conns) < MaxConns /\ Open
  \/ Lifecycle
  \/ InFlight(calls) = <<>> /\ Mutate
  \/ Resume

Spec == Init /\ [][Next]_vars

\* Up to MaxInFlight request handlers at a time, over MaxConnsConcurrent
\* connections that open, register and stay up.
NextConcurrent ==
  \/ Len(conns) < MaxConnsConcurrent /\ Open
  \/ \E c \in 1..Len(conns) : WsAccepted(c)
  \/ Len(InFlight(calls)) < MaxInFlight /\ Mutate
  \/ Resume

SpecConcurrent == Init /\ [][NextConcurrent]_vars

\* Handshakes, accepted and rejected, over MaxConnsHandshake channels, while
\* a super_admin deactivates, reactivates and deletes accounts.
NextHandshake ==
  \/ Len(conns) < MaxConnsHandshake /\ Open
  \/ Len(conns) < MaxConnsHandshake /\ Reject
  \/ Lifecycle
  \/ AdminAccounts

SpecHandshake == Init /\ [][NextHandshake]_vars

\* Alerts one at a time over MaxConnsRoles connections, while a super_admin
\* changes roles.
NextRoles ==
  \/ Len(conns) < MaxConnsRoles /\ Open
  \/ \E c \in 1..Len(conns) : WsAccepted(c)
  \/ ChangeRole
  \/ InFlight(calls) = <<>> /\ CreateAlert
  \/ Resume

SpecRoles == Init /\ [][NextRoles]_vars

\* Deletions one at a time over MaxConnsCommit connections that open,
\* register, break and close.
NextCommit ==
  \/ Len(conns) < MaxConnsCommit /\ Open
  \/ \E c \in 1..Len(conns) : WsAccepted(c) \/ WsLost(c) \/ WsDisconnect(c)
  \/ InFlight(calls) = <<>> /\ Delete
  \/ Resume

SpecCommit == Init /\ [][NextCommit]_vars

\* Bulk delete and bulk restore, one request after the other, over every
\* alerts table: rows active, inactive or missing.
AlertTables == [AlertIds -> {AlertRow(TRUE), AlertRow(FALSE), NoAlert}]

InitAlerts ==
  /\ active_connections = <<>>
  /\ conns = <<>>
  /\ calls = <<>>
  /\ users = InitialUsers
  /\ alerts \in AlertTables
  /\ alert_acknowledgments = NoAcknowledgments

NextAlerts ==
  \/ Len(conns) < MaxConnsAlerts /\ Open
  \/ \E c \in 1..Len(conns) : WsAccepted(c) \/ WsLost(c) \/ WsDisconnect(c)
  \/ InFlight(calls) = <<>> /\ \E alert_ids \in BulkInputs :
                                 BulkDelete(alert_ids)
  \/ InFlight(calls) = <<>> /\ \E alert_ids \in BulkInputs :
                                 BulkRestore(alert_ids)
  \/ Resume

SpecAlerts == InitAlerts /\ [][NextAlerts]_vars

\* Users acknowledging and unacknowledging alerts, a request arriving also
\* while the broadcast of another is suspended.
NextAcks ==
  \/ Len(conns) < MaxConnsAcks /\ Open
  \/ \E c \in 1..Len(conns) : WsAccepted(c)
  \/ Len(InFlight(calls)) < MaxInFlight
       /\ \E user_id \in 1..MaxAckUsers, alert_id \in 1..MaxAckAlerts :
            AcknowledgeAlert(user_id, alert_id)
  \/ \E user_id \in 1..MaxAckUsers, alert_id \in 1..MaxAckAlerts :
       UnacknowledgeAlert(user_id, alert_id)
  \/ Resume

SpecAcks == Init /\ [][NextAcks]_vars

\* Alerts by every user, one at a time, over MaxConnsSenders connections
\* that open and register.
NextSenders ==
  \/ Len(conns) < MaxConnsSenders /\ Open
  \/ \E c \in 1..Len(conns) : WsAccepted(c)
  \/ InFlight(calls) = <<>> /\ CreateAlertBySender
  \/ Resume

SpecSenders == Init /\ [][NextSenders]_vars

\* The role strings posted to signup.
SignupInputs == {"student", "Faculty", "college_admin", "super_admin"}

\* Accounts are self-registered, approved, rejected, deactivated and
\* reactivated, and log in.
NextSignup ==
  \/ \E user_id \in SignupIds, role \in SignupInputs : Signup(user_id, role)
  \/ \E user_id \in DOMAIN users, password_ok \in BOOLEAN :
       Login(user_id, password_ok)
  \/ \E user_id \in DOMAIN users : ApproveUser(user_id)
  \/ \E user_id \in DOMAIN users : DeletePendingUser(user_id)
  \/ \E user_id \in DOMAIN users, permanent \in BOOLEAN :
       RejectUser(user_id, permanent)
  \/ \E user_id \in DOMAIN users, is_active \in BOOLEAN :
       UpdateUser(user_id, <<>>, <<is_active>>)
  \/ \E user_id \in DOMAIN users, permanent \in BOOLEAN :
       DeleteUser(user_id, permanent)

SpecSignup == Init /\ [][NextSignup]_vars

\* Accounts deactivated, deleted and rejected while their connections are
\* registered and events are broadcast.
\* A user's handshake with the token login issued to that user.
OwnHandshake ==
  \E user_id \in Users :
    WsOpen(user_id, Token(user_id)) \/ WsReject(user_id, Token(user_id))

NextAccounts ==
  \/ Len(conns) < MaxConnsAccounts /\ OwnHandshake
  \/ \E c \in 1..Len(conns) : WsAccepted(c) \/ WsLost(c) \/ WsDisconnect(c)
  \/ AdminAccounts
  \/ \E user_id \in SignupIds : Signup(user_id, STUDENT)
  \/ \E user_id \in DOMAIN users, permanent \in BOOLEAN :
       RejectUser(user_id, permanent)
  \/ InFlight(calls) = <<>> /\ Request("delete_alert", <<>>)
  \/ Resume

SpecAccounts == Init /\ [][NextAccounts]_vars

\* Requests one at a time over MaxConnsSlow connections that open, register
\* and may stop reading.  The event loop resumes a handler whose awaited send
\* has completed.
NextSlow ==
  \/ Len(conns) < MaxConnsSlow /\ Open
  \/ \E c \in 1..Len(conns) : WsAccepted(c)
  \/ \E c \in 1..Len(conns) : WsStall(c)
  \/ InFlight(calls) = <<>> /\ Mutate
  \/ Resume

SpecSlow == Init /\ [][NextSlow]_vars /\ WF_vars(Resume)

\* ----------------------------------------------- what a step of a call did
\* A step of Spec changes calls only by running a request handler: a new
\* request (no call was in flight) or the call k that was suspended.
Started == InFlight(calls) = <<>> /\ calls' # calls
Resumed(k) == k \in 1..Len(calls) /\ calls[k].pc = "sending" /\ calls' # calls
CallStep(k) == IF k = 0 THEN Started ELSE Resumed(k)

\* The handler after the step, and where its loop stood before it.
Post(k) == IF k = 0 THEN calls'[Len(calls')] ELSE calls'[k]
PrePos(k) == IF k = 0 THEN 1 ELSE calls[k].it.di_pos

\* The slots of the registry holding an entry, from slot p on.
LiveFrom(d, p) == {i \in p..Len(d) : d[i].user_id # 0}

\* The slots the loop went past without sending in this step.
PassedOver(k) ==
  IF Post(k).pc = "sending"
  THEN {i \in LiveFrom(active_connections, PrePos(k)) :
          i < Post(k).it.di_pos - 1}
  ELSE IF Post(k).pc = "returned"
  THEN LiveFrom(active_connections, PrePos(k))
  ELSE {}

\* The step ended at a send to the entry of the slot the loop reached.
SendsNow(k) ==
  /\ Post(k).pc = "sending"
  /\ Post(k).it.di_pos - 1 \in LiveFrom(active_connections, PrePos(k))
  /\ Post(k).cur = active_connections[Post(k).it.di_pos - 1]

\* The canonical role a target string stands for: its lower-case form, with
\* the one plural "students" standing for "student".
RoleStrings ==
  {"all", "All", "student", "students", "Students", "faculty",
   "college_admin", "super_admin"}
Canonical(s) ==
  CASE s = "All" -> "all"
    [] s = "students" -> "student"
    [] s = "Students" -> "student"
    [] OTHER -> s

\* in_scope(r, T): the normalized T contains "all" or r.
InScope(r, T) ==
  \E i \in 1..Len(T) : Canonical(T[i]) = "all" \/ Canonical(T[i]) = r

\* Lists of one or two target strings.
TargetLists ==
  {<<s>> : s \in RoleStrings} \cup
  {<<s1, s2>> : s1 \in {"All", "Students", "faculty"},
                s2 \in {"students", "college_admin", "super_admin"}}

\* ------------------------------------------------------------------ claims
\* C1: for every non-empty target_roles list T and every role r,
\* broadcast_alert sends new_alert to an entry of role r if and only if the
\* normalized T contains "all" or r: in every step of a create_alert call
\* the entries the loop goes past unsent are out of scope and the entry it
\* sends to is in scope, and should_receive decides so for every list.
C1_TargetingIff ==
  /\ [][\A k \in 0..Len(calls) :
          (/\ CallStep(k)
           /\ Post(k).endpoint = "create_alert"
           /\ Post(k).target_roles # Some(<<>>))
          => /\ \A i \in PassedOver(k) :
                  ~InScope(active_connections[i].role,
                           Post(k).target_roles[1])
             /\ Post(k).pc = "sending" =>
                  /\ SendsNow(k)
                  /\ InScope(Post(k).cur.role, Post(k).target_roles[1])]_vars
  /\ [](\A T \in TargetLists, r \in UserRole :
          should_receive(Some(T), r) <=> InScope(r, T))

\* C1 witness: a create_alert call for ["faculty"] is sending to a faculty
\* entry after going past a student entry.
C1_Witness ==
  \E k \in 1..Len(calls) :
    /\ calls[k].pc = "sending"
    /\ calls[k].endpoint = "create_alert"
    /\ calls[k].target_roles = Some(<<"faculty">>)
    /\ calls[k].cur.role = "faculty"
    /\ \E i \in 1..(calls[k].it.di_pos - 2) :
         active_connections[i].role = "student"

\* C2: a new_alert event with target_roles=["faculty"] is sent only to
\* entries whose registered role is faculty, whatever the mix of roles in the
\* registry, while the loops of broadcast_reaction, broadcast_acknowledgment
\* and broadcast_alert_deletion go past no entry: each entry they reach is
\* sent the event, whatever its role, and they return only when no entry is
\* left ahead.
C2_ScopedVsUnscoped ==
  [][\A k \in 0..Len(calls) :
       CallStep(k) =>
         /\ broadcast_method(Post(k).endpoint) # "broadcast_alert" =>
              /\ Post(k).target_roles = None
              /\ PassedOver(k) = {}
              /\ Post(k).pc = "sending" => SendsNow(k)
         /\ (/\ Post(k).endpoint = "create_alert"
             /\ Post(k).target_roles = Some(<<"faculty">>)) =>
              /\ Post(k).pc = "sending" => Post(k).cur.role = "faculty"
              /\ \A i \in PassedOver(k) :
                   active_connections[i].role # "faculty"]_vars

\* C2 witness: with a student and a faculty entry registered, a
\* reaction_update pass is sending to the student entry.
C2_Witness ==
  /\ \E i \in 1..Len(active_connections) :
       active_connections[i].role = "faculty"
  /\ \E k \in 1..Len(calls) :
       /\ calls[k].pc = "sending"
       /\ calls[k].endpoint = "add_reaction"
       /\ calls[k].cur.role = "student"

\* C3: broadcast_alert called with target_roles None or [] behaves as for
\* ["all"]: should_receive holds for every role, and a create_alert call with
\* an empty list goes past no entry, so it never ends with nobody targeted
\* while an entry is registered.
C3_EmptyMeansAll ==
  /\ [][\A k \in 0..Len(calls) :
          (/\ CallStep(k)
           /\ Post(k).endpoint = "create_alert"
           /\ Post(k).target_roles = Some(<<>>))
          => /\ PassedOver(k) = {}
             /\ Post(k).pc = "sending" => SendsNow(k)]_vars
  /\ [](\A r \in UserRole :
          /\ should_receive(None, r)
          /\ should_receive(Some(<<>>), r)
          /\ normalized_roles(None) = <<Chars("all")>>
          /\ normalized_roles(Some(<<>>)) = <<Chars("all")>>)

\* C3 witness: a create_alert call with an empty list is sending to a
\* student entry.
C3_Witness ==
  \E k \in 1..Len(calls) :
    /\ calls[k].pc = "sending"
    /\ calls[k].endpoint = "create_alert"
    /\ calls[k].target_roles = Some(<<>>)
    /\ calls[k].cur.role = "student"

\* C4: normalization lowercases every entry and maps exactly "students", in
\* any letter case, to "student": both normalizers give the canonical form
\* of every role string, entry by entry; a student entry is in scope for
\* ["Students"] and a faculty entry is not in scope for ["student"].
C4_Normalization ==
  /\ \A T \in TargetLists :
       /\ normalized_roles(Some(T)) =
            [i \in 1..Len(T) |-> Chars(Canonical(T[i]))]
       /\ normalize_target_roles(T) = normalized_roles(Some(T))
  /\ should_receive(Some(<<"Students">>), "student")
  /\ ~should_receive(Some(<<"student">>), "faculty")
  /\ \A k \in 1..Len(calls) :
       (/\ calls[k].pc = "sending"
        /\ calls[k].target_roles = Some(<<"Students">>))
       => calls[k].cur.role = "student"

\* C4 witness: a create_alert call for ["Students"] is sending to a student
\* entry while a faculty entry is registered.
C4_Witness ==
  /\ \E i \in 1..Len(active_connections) :
       active_connections[i].role = "faculty"
  /\ \E k \in 1..Len(calls) :
       /\ calls[k].pc = "sending"
       /\ calls[k].target_roles = Some(<<"Students">>)
       /\ calls[k].cur.role = "student"

\* The entry the registry holds for recipient u.
EntryOf(d, u) == {d[i] : i \in {j \in 1..Len(d) : d[j].user_id = u}}

\* The step is connection c's registration: its accept() has returned.
Registers(c) ==
  /\ c \in 1..Len(conns)
  /\ conns[c].pc = "accepting"
  /\ conns'[c].pc = "active"

\* C5: however the registrations for one recipient id interleave at
\* accept(), the registry holds exactly one entry for a registered id and the
\* count counts it once; a registration never fails, and leaves the id's
\* entry holding the channel and role of the connection that registered;
\* until the next registration of that id the entry can only disappear; a
\* registration of an id already present replaces the entry and leaves the
\* count as it was.
C5_OneEntryPerRecipient ==
  /\ [](\A u \in Users :
          /\ Cardinality({i \in 1..Len(active_connections) :
                            active_connections[i].user_id = u}) <= 1
          /\ get_active_users_count(active_connections) =
               Cardinality(dict_keys(active_connections)))
  /\ [][\A c \in 1..Len(conns) :
          Registers(c) =>
            /\ EntryOf(active_connections', conns[c].user_id) =
                 {connection_info(conns[c].user_id, c, conns[c].role)}
            /\ get_active_users_count(active_connections') =
                 IF conns[c].user_id \in dict_keys(active_connections)
                 THEN get_active_users_count(active_connections)
                 ELSE get_active_users_count(active_connections) + 1]_vars
  /\ [][\A u \in Users :
          (\A c \in 1..Len(conns) : ~(Registers(c) /\ conns[c].user_id = u))
          => \/ EntryOf(active_connections', u) =
                  EntryOf(active_connections, u)
             \/ EntryOf(active_connections', u) = {}]_vars

\* C5 witness: two connections of one recipient are both open, the one
\* opened first registered last, and the registry holds its channel.
C5_Witness ==
  \E c1 \in 1..Len(conns), c2 \in 1..Len(conns) :
    /\ c1 < c2
    /\ conns[c1].pc = "active"
    /\ conns[c2].pc = "active"
    /\ conns[c1].user_id = conns[c2].user_id
    /\ EntryOf(active_connections, conns[c1].user_id) =
         {connection_info(conns[c1].user_id, c1, conns[c1].role)}

\* The step is the disconnect() call of connection c's handler.
Disconnects(c) ==
  /\ c \in 1..Len(conns)
  /\ conns[c].pc = "lost"
  /\ conns'[c].pc \in {"closed", "failed"}

\* C6: disconnect(x) never raises; on a registry without x (x never
\* registered, already disconnected, or purged by a failed send) it changes
\* nothing, and a second disconnect(x) in a row changes nothing.
C6_DisconnectIdempotent ==
  /\ [](\A x \in PathUserIds :
          LET once == disconnect(active_connections, x)
              twice == disconnect(once.d, x)
          IN /\ ~once.raised
             /\ ~twice.raised
             /\ twice.d = once.d
             /\ x \notin dict_keys(once.d)
             /\ x \notin dict_keys(active_connections) =>
                  once.d = active_connections)
  /\ [][\A c \in 1..Len(conns) :
          Disconnects(c) =>
            /\ conns'[c].pc = "closed"
            /\ conns[c].user_id \notin dict_keys(active_connections')
            /\ conns[c].user_id \notin dict_keys(active_connections) =>
                 active_connections' = active_connections]_vars

\* C6 witness: a connection is down and its handler has yet to call
\* disconnect(), but a failed send has already purged its entry.
C6_Witness ==
  \E c \in 1..Len(conns) :
    /\ conns[c].pc = "lost"
    /\ conns[c].user_id \notin dict_keys(active_connections)
    /\ \E k \in 1..Len(calls) : calls[k].pc = "returned"

\* The channels a sequence of sends went to.
Range(seq) == {seq[i] : i \in 1..Len(seq)}

\* C7: in every broadcast_* call a send that raises does not abort the pass:
\* the handler goes on to the next targeted entry or to the end of the loop,
\* going past no targeted entry, and when the call returns the registry has
\* lost exactly the recipients whose send failed.
C7_FanOutIsolation ==
  [][\A k \in 1..Len(calls) :
       Resumed(k) =>
         /\ ~send_ok(calls[k]) =>
              /\ Post(k).pc \in {"sending", "returned"}
              /\ \A i \in PassedOver(k) :
                   ~sends_to(broadcast_method(calls[k].endpoint),
                             calls[k].target_roles,
                             active_connections[i].role)
         /\ Post(k).pc = "returned" =>
              dict_keys(active_connections') =
                dict_keys(active_connections) \
                  (Range(calls[k].disconnected_users) \cup
                     (IF send_ok(calls[k]) THEN {}
                      ELSE {calls[k].cur.user_id}))]_vars

\* C8: a connect or disconnect that happens while a broadcast is suspended
\* at an awaited send does not disturb the pass: resumed, the pass goes on to
\* an entry it has not visited yet or runs to completion.
C8_SnapshotIteration ==
  [][\A k \in 1..Len(calls) :
       Resumed(k) =>
         /\ Post(k).pc # "raised"
         /\ Post(k).pc = "sending" =>
              Post(k).cur.ws \notin Range(calls[k].sent)]_vars

\* C9: once its write has committed, a mutation endpoint answers with its
\* success response, whatever happened during the fan-out.
C9_FanOutFailureNotSurfaced ==
  \A k \in 1..Len(calls) :
    calls[k].pc # "sending" => response(calls[k]) = "200"

\* C10: if m1 commits before m2, a recipient that stays connected and is
\* targeted by both is sent the event of m1 before the event of m2: when the
\* handler of the earlier commit sends to a channel, no handler of a later
\* commit has sent to that channel already.
C10_CommitOrderDelivery ==
  [][\A j \in 1..Len(calls), k \in 1..Len(calls) :
       (/\ j < k
        /\ Len(calls') = Len(calls)
        /\ calls[j].pc = "sending"
        /\ calls'[j].pc = "sending"
        /\ calls'[j] # calls[j]
        /\ calls'[k] = calls[k]
        /\ conns[calls'[j].cur.ws].pc = "active")
       => calls'[j].cur.ws \notin Range(calls[k].sent)]_vars

\* Channel w is that of a targeted entry a pass has yet to reach, the pass
\* being suspended at a send that stays pending.
WaitsBehindPending(w) ==
  \E k \in 1..Len(calls) :
    /\ calls[k].pc = "sending"
    /\ send_pending(calls[k])
    /\ \E i \in LiveFrom(active_connections, calls[k].it.di_pos) :
         /\ active_connections[i].ws = w
         /\ conns[w].pc = "active"
         /\ sends_to(broadcast_method(calls[k].endpoint),
                     calls[k].target_roles, active_connections[i].role)

\* Some pass has sent to channel w.
SentTo(w) == \E k \in 1..Len(calls) : w \in Range(calls[k].sent)

\* C11: one slow recipient never blocks delivery to the others: a targeted
\* entry that a pass has yet to reach while the pass waits on a send that
\* does not complete is still eventually sent the event.
C11_SlowRecipientDoesNotBlock ==
  \A w \in 1..MaxConnsSlow : WaitsBehindPending(w) ~> SentTo(w)

\* The entries of the registry.
Entries(d) == {d[i] : i \in LiveFrom(d, 1)}

\* The recipients whose send failed in the pass of call k, the send it is
\* resumed from in this step included.
FailedIn(k) ==
  Range(calls[k].disconnected_users) \cup
    (IF send_ok(calls[k]) THEN {} ELSE {calls[k].cur.user_id})

\* C12: a registry entry is removed only by an event concerning that very
\* entry: its own channel's handler signalling closure, the purge after a
\* failed send to its recipient, or a newer registration of its recipient.
\* So when the superseded connection of a recipient that has reconnected
\* signals disconnect, the newer connection's entry stays.
C12_RemovedOnlyByOwnEvent ==
  [][\A e \in Entries(active_connections) :
       e \notin Entries(active_connections') =>
         \/ Disconnects(e.ws)
         \/ \E c \in 1..Len(conns) :
              Registers(c) /\ conns[c].user_id = e.user_id
         \/ \E k \in 1..Len(calls) :
              /\ Resumed(k)
              /\ Post(k).pc = "returned"
              /\ e.user_id \in FailedIn(k)]_vars

\* The handler of connection c is past registration and has not ended.
Registered(cn) == cn.pc \in {"active", "lost", "stalled"}

\* C13: every Active -> Closed transition removes the recipient from the
\* registry: whatever ends the receive loop of a registered connection, the
\* handler has called disconnect() for its recipient when it ends.
C13_ClosedMeansRemoved ==
  [][\A c \in 1..Len(conns) :
       (Registered(conns[c]) /\ ~Registered(conns'[c]))
       => conns[c].user_id \notin dict_keys(active_connections')]_vars

\* ------------------------------------------------------------ handshakes
\* The connection record a step appends, if it appends one.
Arrives == Len(conns') = Len(conns) + 1
Arrived == conns'[Len(conns')]

\* The validation step a handshake fails first, in the store as it stands
\* when the handshake arrives: "" when it fails none.
FailureClass(user_id, token) ==
  IF token.kind = "none" THEN "missing credential"
  ELSE IF token.kind = "invalid" THEN "invalid credential"
  ELSE IF token.user_id # user_id THEN "identity mismatch"
  ELSE IF user_id \notin DOMAIN users \/ ~users[user_id].exists
    THEN "recipient not found"
  ELSE IF ~users[user_id].is_active THEN "recipient disabled"
  ELSE ""

\* C14: a handshake that fails a validation step (no token, undecodable
\* token, token for another user_id than the path's, user not found, user
\* deactivated) is closed at once and the registry after the attempt is the
\* registry before it, an existing entry of the same user_id included; a
\* rejected handshake is never taken up again.
C14_RejectionLeavesRegistry ==
  [][/\ (Arrives /\ FailureClass(Arrived.user_id, Arrived.token) # "")
          => (Arrived.pc = "rejected"
              /\ active_connections' = active_connections)
     /\ \A c \in 1..Len(conns) :
          conns[c].pc = "rejected" => conns'[c] = conns[c]]_vars

\* A handshake for a connected user was rejected, and the user's entry is
\* still registered.
C14_Witness ==
  \E c \in 1..Len(conns) :
    /\ conns[c].pc = "rejected"
    /\ \E e \in Entries(active_connections) :
         e.user_id = conns[c].user_id /\ e.ws # c

\* C15: an entry for user u enters the registry only in the connect() of a
\* handshake on path user_id u that presented a token, whose token decoded,
\* whose token carried user_id u, and whose lookup of u in the users table,
\* made when the handshake arrived, found a row that was not deactivated.
C15_InsertOnlyByValidHandshake ==
  [][/\ \A e \in Entries(active_connections') :
          e \notin Entries(active_connections)
            => /\ e.ws \in 1..Len(conns)
               /\ Registers(e.ws)
               /\ conns[e.ws].user_id = e.user_id
               /\ conns[e.ws].token.kind = "jwt"
               /\ conns[e.ws].token.user_id = e.user_id
     /\ (Arrives /\ Arrived.pc = "accepting")
          => /\ Arrived.token.kind = "jwt"
             /\ Arrived.token.user_id = Arrived.user_id
             /\ Arrived.user_id \in DOMAIN users
             /\ users[Arrived.user_id].exists
             /\ users[Arrived.user_id].is_active
     /\ \A c \in 1..Len(conns) :
          Registers(c) => (conns'[c].user_id = conns[c].user_id
                           /\ conns'[c].token = conns[c].token)]_vars

\* An entry is registered for a handshake that passed every step.
C15_Witness ==
  \E e \in Entries(active_connections) :
    /\ conns[e.ws].pc = "active"
    /\ conns[e.ws].token = Token(e.user_id)
    /\ users[e.user_id].is_active

\* The close reason of each class of rejection.
CloseReasons ==
  [c \in {"missing credential", "invalid credential", "identity mismatch",
          "recipient not found", "recipient disabled"} |->
     CASE c = "missing credential" -> "No token provided"
       [] c = "invalid credential" -> "Invalid token"
       [] c = "identity mismatch" -> "Token user_id mismatch"
       [] c = "recipient not found" -> "User not found"
       [] c = "recipient disabled" -> "Account deactivated"]

C17_AtomicRegistration ==
  /\ \A e \in Entries(active_connections) :
       /\ e.ws \in 1..Len(conns)
       /\ e.role \in UserRole
       /\ conns[e.ws].pc \notin {"accepting", "rejected", "accept_failed"}
  /\ \A k \in 1..Len(calls) :
       calls[k].pc = "sending"
         => (calls[k].cur.ws \in 1..Len(conns) /\ calls[k].cur.role \in UserRole)

\* A broadcast is suspended at a send while another handshake awaits its
\* accept(), unregistered.
C17_Witness ==
  \E k \in 1..Len(calls), c \in 1..Len(conns) :
    /\ calls[k].pc = "sending"
    /\ conns[c].pc = "accepting"
    /\ calls[k].cur.ws # c
    /\ \A e \in Entries(active_connections) : e.ws # c

\* C18: the role of a registry entry is the role the users table held when
\* its handshake looked the user up, and never changes while the entry
\* exists: a change of the table leaves the registry alone; broadcast_alert
\* decides by that captured role, whatever the table says by then; and a new
\* handshake of the user captures the table's role of that moment, which its
\* registration stores.
C18_RoleFixedAtConnect ==
  [][/\ \A e \in Entries(active_connections),
          e2 \in Entries(active_connections') :
          (e2.user_id = e.user_id /\ e2.ws = e.ws) => e2.role = e.role
     /\ users' # users => active_connections' = active_connections
     /\ \A k \in 0..Len(calls) :
          (CallStep(k) /\ Post(k).endpoint = "create_alert")
          => /\ \A i \in PassedOver(k) :
                  ~InScope(conns[active_connections[i].ws].role,
                           default_target_roles(Post(k).target_roles))
             /\ Post(k).pc = "sending" =>
                  InScope(conns[Post(k).cur.ws].role,
                          default_target_roles(Post(k).target_roles))
     /\ (Arrives /\ Arrived.pc = "accepting")
          => Arrived.role = users[Arrived.user_id].role
     /\ \A c \in 1..Len(conns) :
          Registers(c)
          => \E e \in Entries(active_connections') :
               e.ws = c /\ e.user_id = conns[c].user_id
               /\ e.role = conns[c].role]_vars

\* A create_alert call is sending to an entry by the role captured at
\* connect, which the users table no longer holds and which alone is in
\* scope of the alert.
C18_Witness ==
  \E k \in 1..Len(calls) :
    /\ calls[k].pc = "sending"
    /\ calls[k].endpoint = "create_alert"
    /\ calls[k].cur.role # users[calls[k].cur.user_id].role
    /\ should_receive(calls[k].target_roles, calls[k].cur.role)
    /\ ~should_receive(calls[k].target_roles,
                       users[calls[k].cur.user_id].role)

\* A handler that has ended.
HasEnded(t) == t.pc \in {"returned", "raised"}

\* C19: delivery is at most once, without retry or backfill.  Within one
\* broadcast call a channel is sent the event at most once: each step adds
\* at most the one channel it sends to, and that channel was not sent to
\* before in the call; after a failed send the call goes on to another
\* channel or ends; a handler that has ended sends nothing more, and a
\* registration makes no handler send.
C19_AtMostOnce ==
  [][/\ \A k \in 1..Len(calls) :
          Resumed(k)
          => /\ Post(k).pc = "sending"
                  => /\ Post(k).cur.ws \notin Range(calls[k].sent)
                     /\ Post(k).sent = Append(calls[k].sent, Post(k).cur.ws)
                     /\ ~send_ok(calls[k]) => Post(k).cur.ws # calls[k].cur.ws
             /\ Post(k).pc # "sending" => HasEnded(Post(k))
     /\ \A k \in 1..Len(calls) :
          HasEnded(calls[k])
          => \/ Started
             \/ k \in 1..Len(calls') /\ calls'[k] = calls[k]
     /\ \A c \in 1..Len(conns) : Registers(c) => calls' = calls]_vars

\* A call whose send to one channel failed is sending to another channel.
C19_Witness ==
  \E k \in 1..Len(calls) :
    /\ calls[k].pc = "sending"
    /\ Len(calls[k].sent) = 2
    /\ calls[k].sent[1] # calls[k].sent[2]
    /\ calls[k].disconnected_users # <<>>
    /\ conns[calls[k].sent[1]].pc = "lost"

\* C20: in every broadcasting endpoint the event of a mutation is handed to
\* the dispatcher only after the mutation's write is committed: a handler
\* that is sending an event has committed.
C20_BroadcastAfterCommit ==
  \A k \in 1..Len(calls) : calls[k].pc = "sending" => calls[k].committed

\* C21: the role a successful handshake hands to the registry is the role
\* the users table holds for the user when the handshake arrives, whatever
\* role the token carries: the handshake captures the table's role, its
\* registration stores the captured role, and broadcast_alert sends to the
\* entry, or passes it over, by the stored role.
C21_RoleFromUserStore ==
  [][/\ (Arrives /\ Arrived.pc = "accepting")
          => Arrived.role = user_lookup(users, Arrived.user_id).role
     /\ \A c \in 1..Len(conns) :
          Registers(c)
          => EntryOf(active_connections', conns[c].user_id)
               = {connection_info(conns[c].user_id, c, conns[c].role)}
     /\ \A k \in 0..Len(calls) :
          (CallStep(k) /\ Post(k).endpoint = "create_alert")
          => /\ \A i \in PassedOver(k) :
                  ~should_receive(Post(k).target_roles,
                                  conns[active_connections[i].ws].role)
             /\ Post(k).pc = "sending" =>
                  should_receive(Post(k).target_roles,
                                 conns[Post(k).cur.ws].role)]_vars

\* A connection opened with a token whose role claim differs from the
\* table's role is sent an alert that is in scope for the table's role only.
C21_Witness ==
  \E k \in 1..Len(calls) :
    /\ calls[k].pc = "sending"
    /\ calls[k].endpoint = "create_alert"
    /\ conns[calls[k].cur.ws].token.kind = "jwt"
    /\ conns[calls[k].cur.ws].token.role # calls[k].cur.role
    /\ users[calls[k].cur.user_id].role = calls[k].cur.role
    /\ ~should_receive(calls[k].target_roles,
                       conns[calls[k].cur.ws].token.role)

\* ----------------------------------------------------------------- senders
\* The documented rules of validate_target_roles, on the canonical targets:
\* super_admin may target any subset of {student, faculty, college_admin},
\* or all; college_admin subsets of {faculty, student}; faculty students
\* only.
CanonicalSet(T) == {Canonical(T[i]) : i \in 1..Len(T)}
DocumentedRule(sender_role, T) ==
  CASE sender_role = SUPER_ADMIN ->
         \/ CanonicalSet(T) \subseteq {"student", "faculty", "college_admin"}
         \/ "all" \in CanonicalSet(T)
    [] sender_role = COLLEGE_ADMIN ->
         CanonicalSet(T) \subseteq {"faculty", "student"}
    [] sender_role = FACULTY -> CanonicalSet(T) = {"student"}
    [] OTHER -> FALSE

\* C22: validate_target_roles accepts a (sender role, target_roles) pair
\* exactly when the documented rules allow it: a create_alert request of a
\* super_admin, college_admin or faculty sender gets past the validation if
\* and only if the rules allow its targets, and is answered 403 otherwise.
C22_ValidationAsDocumented ==
  \A k \in 1..Len(calls) :
    (calls[k].endpoint = "create_alert"
     /\ calls[k].sender_role \in {SUPER_ADMIN, COLLEGE_ADMIN, FACULTY})
    => /\ calls[k].pc # "forbidden"
            <=> DocumentedRule(calls[k].sender_role, calls[k].target_roles[1])
       /\ validate_target_roles(calls[k].sender_role,
                                calls[k].target_roles[1])
            = IF DocumentedRule(calls[k].sender_role,
                                calls[k].target_roles[1])
              THEN "True" ELSE "HTTP403"

\* C23: an alert created by a college_admin is never sent to a connection
\* registered with role super_admin.
C23_CollegeAdminNeverReachesSuperAdmin ==
  \A k \in 1..Len(calls) :
    (/\ calls[k].endpoint = "create_alert"
     /\ calls[k].sender_role = COLLEGE_ADMIN
     /\ calls[k].pc = "sending")
    => calls[k].cur.role # SUPER_ADMIN

\* The step is a create_alert request of a sender with the given targets.
Posted == calls'[Len(calls')]
PostsAlert ==
  /\ InFlight(calls) = <<>>
  /\ calls' # calls
  /\ Posted.endpoint = "create_alert"

\* C24: a create_alert request whose sender role require_role does not let
\* in, or whose targets validate_target_roles answers with 403, is answered
\* 403 in that step: nothing is committed, nothing is sent, the registry and
\* the connections are as before; and the handler never does anything more.
C24_RejectedCreateAlertHasNoEffect ==
  [][/\ (/\ PostsAlert
          /\ \/ Posted.sender_role \notin {SUPER_ADMIN, COLLEGE_ADMIN, FACULTY}
             \/ validate_target_roles(Posted.sender_role,
                                      Posted.target_roles[1]) = "HTTP403")
          => /\ Posted.pc = "forbidden"
             /\ response(Posted) = "403"
             /\ ~Posted.committed
             /\ Posted.sent = <<>>
             /\ active_connections' = active_connections
             /\ conns' = conns
     /\ \A k \in 1..Len(calls) :
          calls[k].pc = "forbidden"
          => (PostsAlert \/ (k \in 1..Len(calls') /\ calls'[k] = calls[k]))]_vars

\* A faculty sender's alert for faculty was answered 403 while a faculty
\* connection was registered.
C24_Witness ==
  \E k \in 1..Len(calls) :
    /\ calls[k].pc = "forbidden"
    /\ calls[k].sender_role = FACULTY
    /\ calls[k].target_roles = Some(<<"faculty">>)
    /\ \E e \in Entries(active_connections) : e.role = FACULTY

\* ------------------------------------------------------- signup and login
\* C25: a self-registered account gets an access token only after a
\* super_admin approved it: signup stores the row unapproved, only
\* approve_user, run by a super_admin, approves a row, every login that
\* succeeds is of a row that is approved and not deactivated, and so an
\* account that has logged in is approved.
C25_LoginOnlyAfterApproval ==
  [][\A u \in DOMAIN users :
       /\ (~users[u].exists /\ users'[u].exists)
            => (~users'[u].is_approved /\ users'[u].logins = 0)
       /\ (users[u].exists /\ ~users[u].is_approved /\ users'[u].is_approved)
            => /\ \E actor \in DOMAIN users : IsSuperAdmin(users, actor)
               /\ users'[u] = [users[u] EXCEPT !.is_approved = TRUE,
                                               !.is_active = TRUE]
       /\ users'[u].logins > users[u].logins
            => /\ users[u].exists
               /\ users[u].is_approved
               /\ users[u].is_active
       /\ users'[u].logins > 0 => users'[u].is_approved]_vars

\* A self-registered account that was rejected and then approved has
\* logged in.
C25_Witness ==
  \E u \in SignupIds :
    /\ users[u].exists
    /\ users[u].is_approved
    /\ users[u].logins = MaxLogins

\* The step in which a bulk_delete_alerts call committed and returned.
BulkReturns(k) ==
  /\ CallStep(k)
  /\ Post(k).endpoint = "bulk_delete_alerts"
  /\ Post(k).pc = "returned"

\* C26: bulk_restore_alerts undoes bulk_delete_alerts. When a bulk delete
\* returns, its deleted_ids are exactly the requested ids that had a row and
\* were active before it, and restoring the returned deleted_ids gives every
\* alert the is_active flag it had before the delete. (With one request at
\* a time the table before the returning step is the table before the call.)
C26_RestoreUndoesDelete ==
  [][\A k \in 0..Len(calls) :
       BulkReturns(k) =>
         /\ Range(Post(k).deleted_ids) =
              {a \in Range(Post(k).alert_ids) :
                 alert_lookup(alerts, a).exists
                 /\ alert_lookup(alerts, a).is_active}
         /\ bulk_restore(alerts', Post(k).deleted_ids) = alerts]_vars

\* A bulk delete of an active alert, asked for together with an id it could
\* not delete, has returned, and the alert is inactive.
C26_Witness ==
  /\ calls # <<>>
  /\ LET t == calls[Len(calls)]
     IN /\ t.endpoint = "bulk_delete_alerts"
        /\ t.pc = "returned"
        /\ t.deleted_ids # <<>>
        /\ Len(t.deleted_ids) < Len(t.alert_ids)
        /\ \A i \in 1..Len(t.deleted_ids) :
             ~alert_lookup(alerts, t.deleted_ids[i]).is_active
        /\ \E a \in AlertIds : alerts[a] # AlertRow(FALSE)

\* C27: the purge at the end of a fan-out removes only entries whose stored
\* channel is one on which a send of that fan-out failed: an entry a handler
\* step removes is of a recipient whose send failed, and the channel it
\* holds is not a healthy one. So the entry of a recipient that re-registered
\* with a new channel while the fan-out was suspended stays.
C27_PurgeKeepsNewEntry ==
  [][\A k \in 1..Len(calls) :
       Resumed(k) =>
         \A e \in Entries(active_connections) :
           e \notin Entries(active_connections') =>
             /\ e.user_id \in FailedIn(k)
             /\ conns[e.ws].pc # "active"]_vars

\* C28: live delivery and list visibility agree for student and faculty
\* users. For every create_alert that is accepted, the broadcast sends the
\* new_alert event to a registered student or faculty entry if and only if
\* get_alerts shows the alert, as create_alert stored it, to a user of that
\* role.
C28_DeliveryAgreesWithVisibility ==
  [][\A k \in 0..Len(calls) :
       (CallStep(k) /\ Post(k).endpoint = "create_alert"
                    /\ Post(k).pc # "forbidden") =>
         LET column == json_dumps(Post(k).target_roles[1]) IN
         /\ (SendsNow(k) /\ Post(k).cur.role \in {STUDENT, FACULTY})
              => should_see(column, Post(k).cur.role, FALSE)
         /\ \A i \in PassedOver(k) :
              active_connections[i].role \in {STUDENT, FACULTY}
                => ~should_see(column, active_connections[i].role, FALSE)]_vars

\* C29: acknowledgments stay consistent under any interleaving of
\* acknowledge_alert and unacknowledge_alert: there is at most one row per
\* (alert, user); an acknowledge_alert for an acknowledged pair returns
\* already_acknowledged, adds no row and sends no event; and the count an
\* acknowledgment_update event carries is the number of rows of the alert
\* when the event is sent.
C29_AcknowledgmentsConsistent ==
  [][/\ \A p \in DOMAIN alert_acknowledgments' :
          alert_acknowledgments'[p] <= 1
     /\ \A k \in 0..Len(calls) :
          (CallStep(k) /\ Post(k).endpoint = "acknowledge_alert"
                       /\ Post(k).alert_id # 0) =>
            /\ (k = 0 /\ existing(alert_acknowledgments, Post(k).alert_id,
                                  Post(k).user_id))
                 => /\ Post(k).pc = "already_acknowledged"
                    /\ alert_acknowledgments' = alert_acknowledgments
            /\ SendsNow(k) =>
                 Post(k).count =
                   ack_count(alert_acknowledgments', Post(k).alert_id)]_vars

\* The users table refuses the user a handshake: no row, or deactivated.
Gone(store, user_id) ==
  ~user_lookup(store, user_id).exists
  \/ ~user_lookup(store, user_id).is_active

\* C30: deactivating or deleting a user (update_user with is_active False,
\* delete_user, reject_user) leaves the registry, the connections and the
\* running broadcasts as they are; a broadcast passes over an entry only by
\* the role rule of its method, whatever the users table says of the
\* entry's user; and a handshake arriving for such a user is rejected
\* without touching the registry.
C30_DeactivationLeavesRegistry ==
  [][/\ (\E u \in DOMAIN users : ~Gone(users, u) /\ Gone(users', u))
          => /\ active_connections' = active_connections
             /\ conns' = conns
             /\ calls' = calls
     /\ \A k \in 0..Len(calls) :
          CallStep(k) =>
            \A i \in PassedOver(k) :
              ~sends_to(broadcast_method(Post(k).endpoint),
                        Post(k).target_roles, active_connections[i].role)
     /\ (Arrives /\ Arrived.token.kind = "jwt"
                 /\ Gone(users, Arrived.user_id))
          => /\ Arrived.pc = "rejected"
             /\ active_connections' = active_connections]_vars

\* An event is being sent to the registered connection of a user who has
\* been deactivated or deleted since.
C30_Witness ==
  \E k \in 1..Len(calls) :
    /\ calls[k].pc = "sending"
    /\ Gone(users, calls[k].cur.user_id)
    /\ conns[calls[k].cur.ws].pc = "active"
    /\ calls[k].cur \in Entries(active_connections)

====
